---- MODULE Spec2Model ----
(***************************************************************************)
(* trybox: fallible heap allocation for Box.                               *)
(*                                                                         *)
(* The model holds the global allocator of the test harness                *)
(* (FailOrFallback: an atomic flag in front of the system allocator), the  *)
(* heap it manages, and a number of caller threads that run new, or_drop,  *)
(* without_payload, layout and the io::Error conversion step by step.      *)
(* A step is one access to shared state (the flag, the heap); everything   *)
(* thread-local between two such accesses belongs to the step.             *)
(***************************************************************************)
EXTENDS Integers, Sequences, FiniteSets, TLC

\* ------------------------------------------------------------------ bounds
NumProcs == 2
MaxAddr == 3
MaxVal == 2
MaxPow == 2
MaxUnits == 3

Procs == 1..NumProcs
\* thread 1 is the caller under study and runs every operation of the crate;
\* the other threads are concurrent callers of new(x) sharing the allocator
Main == CHOOSE p \in Procs : \A q \in Procs : p <= q
Addrs == 1..MaxAddr
\* size_of::<usize>() of the targets considered (16-, 32- and 64-bit)
WordSizes == {2, 4, 8}
\* size_of::<usize>() of the target the threads of the model run on
word == 8

\* --------------------------------------------------------------- pointers
NullPtr == 0
DanglingPtr == -1
\* no pointer held (not a value a pointer takes)
NoPtr == DanglingPtr - 1

\* ------------------------------------------------------------------ types
Ty(k, n) == [k |-> k, n |-> n]
NoType == Ty("none", 0)
TUnit == Ty("unit", 0)
TI32 == Ty("i32", 0)
TBoxI32 == Ty("Box<i32>", 0)
TError == Ty("Error", 0)
TCustom == Ty("io::Custom", 0)
TArray(n) == Ty("[u8; N]", n)

\* values: a type, the bits of the value, and (for an Error) the type whose
\* Indirect::info the function pointer refers to
Val(t, b, i) == [ty |-> t, bits |-> b, info |-> i]
NoValue == Val(NoType, 0, NoType)
Moved == Val(Ty("moved", 0), 0, NoType)
Uninit == Val(Ty("uninit", 0), 0, NoType)

Layout(s, a) == [size |-> s, align |-> a]
NoLayout == Layout(-1, -1)

\* the size of a field of the given name on a target of word size w: a
\* function pointer is one word, a Layout and a &'static str are two
FieldSize(f, w) == IF f = "info" THEN w ELSE 2 * w

\* Layout::new::<T>() for the types of the model, on a target of word size w
Layout_new(t, w) ==
  CASE t.k = "unit" -> Layout(0, 1)
    [] t.k = "i32" -> Layout(4, 4)
    [] t.k = "[u8; N]" -> Layout(t.n, 1)
    [] t.k = "Box<i32>" -> Layout(w, w)
    [] t.k = "Error" -> Layout(FieldSize("info", w), w)
    [] t.k = "io::Custom" -> Layout(3 * w, w)
    [] OTHER -> NoLayout

\* Layout::for_value(&x): the footprint of the value at the call site
Layout_for_value(v, w) == Layout_new(v.ty, w)

\* any::type_name::<T>()
type_name(t) ==
  CASE t.k = "unit" -> "()"
    [] t.k = "i32" -> "i32"
    [] t.k = "[u8; N]" -> "[u8; " \o ToString(t.n) \o "]"
    [] t.k = "Box<i32>" -> "alloc::boxed::Box<i32>"
    [] t.k = "Error" -> "trybox::Error"
    [] OTHER -> "?"

\* ------------------------------------------------------------------- heap
Block(live, l, v) == [live |-> live, layout |-> l, val |-> v]
FreeBlock == Block(FALSE, NoLayout, NoValue)

Live(h) == {a \in Addrs : h[a].live}

\* fallback.alloc(layout) returning address a: a fresh, uninitialised block
SysAllocAt(h, a, l) == [h EXCEPT ![a] = Block(TRUE, l, Uninit)]

\* GlobalAlloc::dealloc: always delegates to the fallback
Dealloc(h, a) == [h EXCEPT ![a] = FreeBlock]

\* heap.write(x) on the Box<MaybeUninit<T>>
HeapWriteSkipped(h, a, v) == h
HeapWrite(h, a, v) == [h EXCEPT ![a].val = v]

\* the heap blocks a value owns (a Box<i32> owns the block it points to)
Owned(v) == IF v.ty.k = "Box<i32>" THEN {v.bits} ELSE {}

\* running the destructor of a value: its owned blocks are released
DropValue(h, v) == [a \in Addrs |-> IF a \in Owned(v) THEN FreeBlock ELSE h[a]]

RECURSIVE RunDrops(_, _)
RunDrops(h, vs) ==
  IF vs = <<>> THEN h ELSE RunDrops(DropValue(h, Head(vs)), Tail(vs))

\* -------------------------------------------------------------- allocator
\* GlobalAlloc::alloc: match self.fail.load(Acquire) { true => null, ... }
AllocIgnoresFlag(flag) == FALSE
AllocFails(flag) == flag

\* imp: match layout.size() == 0
IsZeroSizedNever(l) == FALSE
IsZeroSized(l) == l.size = 0

\* ------------------------------------------------------------------ errors
\* struct Error { info: fn() -> Info }: a record of its fields; the function
\* pointer T::info is modelled by the type T it was instantiated for
ErrorOf(t) == [info |-> t]

\* an Error moved into or_drop(value) as the value to allocate
ErrorAsValue(e) == Val(TError, 0, e.info)

RECURSIVE SumFieldSizes(_, _)
SumFieldSizes(fs, w) ==
  IF fs = {} THEN 0
  ELSE LET f == CHOOSE g \in fs : TRUE IN FieldSize(f, w) + SumFieldSizes(fs \ {f}, w)

\* size_of_val of a struct value: its fields, which are all word-aligned
size_of_val(e, w) == SumFieldSizes(DOMAIN e, w)

\* Indirect::info() for T: Info { layout: Layout::new::<Self>(), name }
Indirect_info_of_pointer(t, w) == [layout |-> Layout(w, w), name |-> type_name(t)]
Indirect_info(t, w) == [layout |-> Layout_new(t, w), name |-> type_name(t)]

\* Error::info(&self): (self.info)()
Error_info(e, w) == Indirect_info(e.info, w)

\* Error::layout(&self): self.info().layout
Error_layout(e, w) == Error_info(e, w).layout

\* ErrorWith::info(&self)
ErrorWith_info(x, w) ==
  [layout |-> Layout_for_value(x, w), name |-> type_name(x.ty)]

\* ErrorWith::without_payload(self): the Error made, and the values that go
\* out of scope (self.0) and so have their destructor run
without_payload_forget(x) == [error |-> ErrorOf(x.ty), drops |-> <<>>]
without_payload_keeps_layout(x) ==
  [error |-> [info |-> x.ty, layout |-> "stored"], drops |-> <<x>>]
without_payload(x) == [error |-> ErrorOf(x.ty), drops |-> <<x>>]

\* -------------------------------------------------------------- rendering
\* A size is amount = num / den with den a power of 1024: the f64 the code
\* computes is exact for every size below 2^53, so the quotient is kept as an
\* exact fraction.

\* number_prefix's binary prefixes, lower-cased by Prefix::lower
PrefixLower == <<"ki", "mi", "gi", "ti", "pi", "ei", "zi", "yi">>

\* NumberPrefix::binary(amount): while amount >= 1024 && prefix < 8
\* { amount /= 1024; prefix += 1 }; prefix 0 is Standalone
RECURSIVE use_abbreviation(_, _, _)
use_abbreviation(num, den, prefix) ==
  IF num \div den >= 1024 /\ prefix < Len(PrefixLower)
  THEN use_abbreviation(num, den * 1024, prefix + 1)
  ELSE [prefix |-> prefix, num |-> num, den |-> den]

NumberPrefix_binary(n) == use_abbreviation(n, 1, 0)

\* write_info's precision of a Prefixed amount: 0 when num.fract() == 0.0,
\* else 2 (feature "std"); always 2 without it
PrecisionNoStd(np) == 2
Precision(np) == IF np.num % np.den = 0 THEN 0 ELSE 2

\* floor(r * m / den) and the remainder, by repeated addition (r < den, so no
\* intermediate value leaves the 32-bit integers of TLC)
RECURSIVE MulDivRem(_, _, _)
MulDivRem(r, m, den) ==
  IF m = 0 THEN [q |-> 0, rem |-> 0]
  ELSE LET s == MulDivRem(r, m - 1, den) IN
         IF s.rem >= den - r THEN [q |-> s.q + 1, rem |-> s.rem - (den - r)]
         ELSE [q |-> s.q, rem |-> s.rem + r]

\* round to nearest, ties to even: q + rem/den with 0 <= rem < den
RoundHalfEven(q, rem, den) ==
  IF rem > den - rem \/ (rem = den - rem /\ q % 2 = 1) THEN q + 1 ELSE q

TwoDigits(h) == ToString(h \div 10) \o ToString(h % 10)

\* format_args!("{num:.precision$}") of num / den
Fixed(num, den, precision) ==
  LET whole == num \div den
      r == num % den
  IN IF precision = 0 THEN ToString(RoundHalfEven(whole, r, den))
     ELSE LET d1 == MulDivRem(r, 10, den)
              d2 == MulDivRem(d1.rem, 10, den)
              h == RoundHalfEven(10 * d1.q + d2.q, d2.rem, den)
          IN IF h = 100 THEN ToString(whole + 1) \o ".00"
             ELSE ToString(whole) \o "." \o TwoDigits(h)

\* write_info(info, f)
write_info(info) ==
  LET np == NumberPrefix_binary(info.layout.size)
      prefix == IF np.prefix = 0 THEN "" ELSE PrefixLower[np.prefix]
      precision == IF np.prefix = 0 THEN 0 ELSE Precision(np)
  IN "memory allocation of " \o Fixed(np.num, np.den, precision) \o " "
       \o prefix \o "bytes (for type " \o info.name \o ") failed"

\* ------------------------------------------------------------------ state
VARIABLES fail, heap, aborted, th, hpc

vars == <<fail, heap, aborted, th, hpc>>

Res(tag, ptr, ty, val, custom) ==
  [tag |-> tag, ptr |-> ptr, ty |-> ty, val |-> val, custom |-> custom]
NoRes == Res("none", NoPtr, NoType, NoValue, NoPtr)

IdleThread ==
  [pc |-> "idle", op |-> "none", phase |-> "none", arg |-> NoValue,
   x |-> NoValue, layout |-> NoLayout, ptr |-> NoPtr, calls |-> 0,
   got |-> {}, newTag |-> "none", res |-> NoRes, window |-> FALSE,
   readFail |-> FALSE, dropped |-> 0, failedLay |-> NoLayout,
   lastLayout |-> NoLayout, msg |-> ""]

InitCommon ==
  /\ fail = FALSE
  /\ heap = [a \in Addrs |-> FreeBlock]
  /\ aborted = "no"
  /\ th = [p \in Procs |-> IdleThread]

Init == InitCommon /\ hpc = "off"

\* ------------------------------------------------------- thread-local code
\* a thread entering new / or_drop / From<Error> with argument x; imp's first
\* statement (Layout::for_value(&x)) is part of it
Enter(op, x, f, w) ==
  [IdleThread EXCEPT !.pc = "imp", !.op = op, !.phase = "imp", !.arg = x,
                     !.x = x, !.layout = Layout_for_value(x, w), !.window = f]

\* imp after the allocator has answered (or, for a zero-size layout, without
\* asking it): the Result and the heap after heap.write(x)
imp(t, h, zst) ==
  IF zst THEN [tag |-> "Ok", ptr |-> DanglingPtr, heap |-> h]
  ELSE IF t.ptr = NullPtr THEN [tag |-> "Err", ptr |-> NoPtr, heap |-> h]
  ELSE [tag |-> "Ok", ptr |-> t.ptr, heap |-> HeapWrite(h, t.ptr, t.x)]

\* the value a Box<T> refers to (a zero-size T has one value, read through the
\* dangling pointer without touching memory)
BoxValue(r, h) == IF r.ptr = DanglingPtr THEN Val(r.ty, 0, NoType) ELSE h[r.ptr].val

\* new(x): Ok(it) => Ok(it), Err(e) => Err(ErrorWith(e))
new(t, h, zst) ==
  LET r == imp(t, h, zst) IN
    IF r.tag = "Ok"
    THEN [t |-> [t EXCEPT !.pc = "done", !.x = Moved, !.newTag = "Ok",
                          !.res = Res("Ok", r.ptr, t.x.ty, NoValue, NoPtr)],
          heap |-> r.heap]
    ELSE [t |-> [t EXCEPT !.pc = "done", !.x = Moved, !.newTag = "Err",
                          !.failedLay = t.layout,
                          !.res = Res("Err", NoPtr, t.x.ty, t.x, NoPtr)],
          heap |-> r.heap]

\* e.without_payload() applied to the ErrorWith a thread holds
DiscardPayload(t, h) ==
  LET wp == without_payload(t.res.val) IN
    [t |-> [t EXCEPT !.res = Res("Error", NoPtr, NoType, wp.error, NoPtr),
                     !.dropped = t.dropped + Len(wp.drops)],
     heap |-> RunDrops(h, wp.drops)]

\* or_drop(x): Ok(it) => Ok(it), Err(e) => Err(e.without_payload())
or_drop_drops_twice(t, h, zst) ==
  LET n == new(t, h, zst) IN
    IF n.t.res.tag = "Ok" THEN n
    ELSE LET d == DiscardPayload(n.t, DropValue(n.heap, n.t.res.val)) IN
           [t |-> [d.t EXCEPT !.dropped = @ + 1], heap |-> d.heap]
or_drop(t, h, zst) ==
  LET n == new(t, h, zst) IN
    IF n.t.res.tag = "Ok" THEN n ELSE DiscardPayload(n.t, n.heap)

\* From<Error> for io::Error, up to the call of io::Error::new:
\* match or_drop(value) { Ok(source) => io::Error::new(kind, source),
\*                        Err(_) => io::Error::from(kind) }
io_from(t, h, zst) ==
  LET o == or_drop(t, h, zst) IN
    IF o.t.res.tag = "Ok"
    THEN [t |-> [o.t EXCEPT !.pc = "alloc", !.phase = "custom",
                            !.layout = Layout_new(TCustom, word),
                            !.ptr = NoPtr],
          heap |-> o.heap]
    ELSE [t |-> [o.t EXCEPT !.res = Res("Io", NullPtr, NoType, NoValue, NullPtr)],
          heap |-> o.heap]

Finish(p, zst) ==
  LET t == th[p]
      r == CASE t.op = "new" -> new(t, heap, zst)
             [] t.op = "or_drop" -> or_drop(t, heap, zst)
             [] OTHER -> io_from(t, heap, zst)
  IN /\ th' = [th EXCEPT ![p] = r.t]
     /\ heap' = r.heap
     /\ UNCHANGED <<fail, aborted, hpc>>

\* ---------------------------------------------------------------- actions
PlainInputs == {Val(TUnit, 0, NoType)} \cup {Val(TI32, b, NoType) : b \in 1..MaxVal}
BackgroundInputs == {Val(TI32, 1, NoType)}

\* a caller invokes new(x) or or_drop(x) on a value that owns no heap memory
Call(p) ==
  /\ aborted = "no" /\ hpc = "off"
  /\ th[p].pc = "idle"
  /\ \E op \in (IF p = Main THEN {"new", "or_drop"} ELSE {"new"}), x \in (IF p = Main THEN PlainInputs ELSE BackgroundInputs) :
       th' = [th EXCEPT ![p] = Enter(op, x, fail, word)]
  /\ UNCHANGED <<fail, heap, aborted, hpc>>

\* a caller invokes new(x) or or_drop(x) on a Box<i32> it made before
CallBoxed(p) ==
  /\ aborted = "no" /\ hpc = "off"
  /\ th[p].pc = "idle"
  /\ ~fail
  /\ \E op \in {"new", "or_drop"}, a \in Addrs \ Live(heap) :
       /\ heap' = [heap EXCEPT ![a] = Block(TRUE, Layout_new(TI32, word), Val(TI32, 1, NoType))]
       /\ th' = [th EXCEPT ![p] = Enter(op, Val(TBoxI32, a, NoType), fail, word)]
  /\ UNCHANGED <<fail, aborted, hpc>>

\* imp, zero-size branch: Box::from_raw(NonNull::dangling())
ImpZst(p) ==
  /\ aborted = "no"
  /\ th[p].pc = "imp"
  /\ IsZeroSized(th[p].layout)
  /\ Finish(p, TRUE)

\* alloc(layout) enters GlobalAlloc::alloc: the load of the flag
AllocLoad(p) ==
  /\ aborted = "no"
  /\ \/ th[p].pc = "imp" /\ ~IsZeroSized(th[p].layout)
     \/ th[p].pc = "alloc"
  /\ th' = [th EXCEPT ![p].calls = @ + 1,
                      ![p].readFail = fail,
                      ![p].ptr = IF AllocFails(fail) THEN NullPtr ELSE NoPtr,
                      ![p].pc = IF AllocFails(fail) THEN "ret" ELSE "sys"]
  /\ UNCHANGED <<fail, heap, aborted, hpc>>

\* self.fallback.alloc(layout): the system allocator hands out a block
SysAllocOk(p) ==
  /\ aborted = "no"
  /\ th[p].pc = "sys"
  /\ \E a \in Addrs \ Live(heap) :
       /\ heap' = SysAllocAt(heap, a, th[p].layout)
       /\ th' = [th EXCEPT ![p].ptr = a, ![p].got = @ \cup {a}, ![p].pc = "ret"]
  /\ UNCHANGED <<fail, aborted, hpc>>

\* self.fallback.alloc(layout): the system allocator is out of memory
SysAllocNull(p) ==
  /\ aborted = "no"
  /\ th[p].pc = "sys"
  /\ th' = [th EXCEPT ![p].ptr = NullPtr, ![p].pc = "ret"]
  /\ UNCHANGED <<fail, heap, aborted, hpc>>

\* imp, after alloc returned: match ptr.is_null(), and the callers' matches
ImpReturn(p) ==
  /\ aborted = "no"
  /\ th[p].pc = "ret" /\ th[p].phase = "imp"
  /\ Finish(p, FALSE)

\* io::Error::new(kind, source): Box::new(Custom { kind, error }) after its
\* allocation returned; a null pointer goes to handle_alloc_error
IoErrorNew(p) ==
  /\ aborted = "no"
  /\ th[p].pc = "ret" /\ th[p].phase = "custom"
  /\ IF th[p].ptr = NullPtr
     THEN /\ aborted' = "handle_alloc_error"
          /\ UNCHANGED <<heap, th>>
     ELSE /\ heap' = HeapWrite(heap, th[p].ptr, Val(TCustom, th[p].res.ptr, NoType))
          /\ th' = [th EXCEPT ![p].pc = "done",
                              ![p].res = Res("Io", th[p].res.ptr, NoType, NoValue, th[p].ptr)]
          /\ UNCHANGED aborted
  /\ UNCHANGED <<fail, hpc>>

\* ErrorWith::without_payload on the ErrorWith a caller got from new
WithoutPayload(p) ==
  /\ aborted = "no" /\ hpc = "off"
  /\ th[p].pc = "done" /\ th[p].res.tag = "Err"
  /\ LET r == DiscardPayload(th[p], heap) IN
       /\ th' = [th EXCEPT ![p] = r.t]
       /\ heap' = r.heap
  /\ UNCHANGED <<fail, aborted, hpc>>

\* Error::layout on the Error a caller holds
CallLayout(p) ==
  /\ aborted = "no" /\ hpc = "off"
  /\ th[p].pc = "done" /\ th[p].res.tag = "Error"
  /\ th' = [th EXCEPT ![p].lastLayout = Error_layout(th[p].res.val, word)]
  /\ UNCHANGED <<fail, heap, aborted, hpc>>

\* From<Error> for io::Error (and From<ErrorWith<T>>, which is
\* Error::from(value).into()): entering or_drop(value)
StartIo(p) ==
  LET r == IF th[p].res.tag = "Err" THEN DiscardPayload(th[p], heap)
           ELSE [t |-> th[p], heap |-> heap]
  IN /\ th' = [th EXCEPT ![p] = [Enter("io", ErrorAsValue(r.t.res.val), fail, word)
                                   EXCEPT !.dropped = r.t.dropped]]
     /\ heap' = r.heap

IntoIo(p) ==
  /\ aborted = "no" /\ hpc = "off"
  /\ th[p].pc = "done" /\ th[p].res.tag \in {"Err", "Error"}
  /\ StartIo(p)
  /\ UNCHANGED <<fail, aborted, hpc>>

\* what a thread holds goes out of scope
Release(t, h) ==
  CASE t.res.tag = "Ok" ->
         LET inner == DropValue(h, BoxValue(t.res, h)) IN
           IF t.res.ptr = DanglingPtr THEN inner ELSE Dealloc(inner, t.res.ptr)
    [] t.res.tag = "Err" -> DropValue(h, t.res.val)
    [] t.res.tag = "Io" /\ t.res.custom # NullPtr ->
         Dealloc(Dealloc(h, t.res.custom), t.res.ptr)
    [] OTHER -> h

DropResult(p) ==
  /\ aborted = "no" /\ hpc = "off"
  /\ th[p].pc = "done"
  /\ heap' = Release(th[p], heap)
  /\ th' = [th EXCEPT ![p] = IdleThread]
  /\ UNCHANGED <<fail, aborted, hpc>>

InFlight(t) == t.pc \notin {"idle", "done"}

\* FailOrFallback::fail: self.fail.store(true, Release)
Fail ==
  /\ aborted = "no" /\ hpc = "off"
  /\ fail' = TRUE
  /\ th' = [p \in Procs |-> IF InFlight(th[p]) THEN [th[p] EXCEPT !.window = TRUE] ELSE th[p]]
  /\ UNCHANGED <<heap, aborted, hpc>>

\* FailOrFallback::fallback: self.fail.store(false, Release)
Fallback ==
  /\ aborted = "no" /\ hpc = "off"
  /\ fail' = FALSE
  /\ UNCHANGED <<heap, aborted, th, hpc>>

Next ==
  \/ \E p \in Procs : Call(p)
  \/ CallBoxed(Main)
  \/ \E p \in Procs : ImpZst(p)
  \/ \E p \in Procs : AllocLoad(p)
  \/ \E p \in Procs : SysAllocOk(p)
  \/ \E p \in Procs : SysAllocNull(p)
  \/ \E p \in Procs : ImpReturn(p)
  \/ \E p \in Procs : IoErrorNew(p)
  \/ WithoutPayload(Main)
  \/ CallLayout(Main)
  \/ IntoIo(Main)
  \/ \E p \in Procs : DropResult(p)
  \/ Fail
  \/ Fallback

Spec == Init /\ [][Next]_vars

\* ------------------------------------------------------------ test harness
\* tests/test.rs: the trials run on one thread (args.test_threads = Some(1)),
\* each calling fail_alloc(x) and then rendering or converting the error.
RECURSIVE Pow1024(_)
Pow1024(k) == IF k = 0 THEN 1 ELSE 1024 * Pow1024(k - 1)

\* remainders below one unit P that exercise the precision policy: none, the
\* smallest, a tie at the last digit, a half, one that rounds up to the unit
Remainders(P) == {r \in {0, 1, P \div 8, 3 * (P \div 8), P \div 2, P - 1} : r < P}

\* the array lengths tried: u units of 1024^k plus a remainder, kept within
\* 32-bit integers
ArraySizes ==
  UNION {{u * Pow1024(k) + r : r \in {x \in Remainders(Pow1024(k)) : u + x > 0}} :
           <<k, u>> \in {z \in (0..MaxPow) \X (0..MaxUnits) :
                          z[2] <= 2147483647 \div Pow1024(z[1])}}

\* the values the trials pass: 1i32, [0u8; 2048], [0u8; 2500], and the other
\* sizes and types fail_alloc<T> accepts
HarnessInputs ==
  PlainInputs \cup {Val(TArray(n), 0, NoType) : n \in ArraySizes \cup {2048, 2500}}

InitHarness == InitCommon /\ hpc = "start"

\* fail_alloc: ALLOC.fail(); try_box::new(x) is entered
FailAlloc ==
  /\ aborted = "no" /\ hpc = "start"
  /\ \E kind \in {"fa_display", "fa_io"}, x \in HarnessInputs :
       /\ th' = [th EXCEPT ![Main] = Enter("new", x, TRUE, word)]
       /\ hpc' = kind
  /\ fail' = TRUE
  /\ UNCHANGED <<heap, aborted>>

\* fail_alloc: let Err(err) = new(x) else { unreachable!() }; ALLOC.fallback()
FailAllocReturn ==
  /\ aborted = "no" /\ hpc \in {"fa_display", "fa_io"}
  /\ th[Main].pc = "done"
  /\ IF th[Main].res.tag = "Err"
     THEN /\ fail' = FALSE
          /\ hpc' = (IF hpc = "fa_display" THEN "display" ELSE "io")
          /\ UNCHANGED aborted
     ELSE /\ aborted' = "unreachable"
          /\ UNCHANGED <<fail, hpc>>
  /\ UNCHANGED <<heap, th>>

\* error_message: fail_alloc(x).to_string(), the Display of the ErrorWith
ToStringTrial ==
  /\ aborted = "no" /\ hpc = "display"
  /\ th' = [th EXCEPT ![Main].msg = write_info(ErrorWith_info(th[Main].res.val, word))]
  /\ hpc' = "end"
  /\ UNCHANGED <<fail, heap, aborted>>

\* io-error-kind: let e: io::Error = fail_alloc(1).into()
IntoIoTrial ==
  /\ aborted = "no" /\ hpc = "io"
  /\ StartIo(Main)
  /\ hpc' = "io_conv"
  /\ UNCHANGED <<fail, aborted>>

\* io-error-kind: assert_eq!(e.kind(), io::ErrorKind::OutOfMemory)
AssertKind ==
  /\ aborted = "no" /\ hpc = "io_conv"
  /\ th[Main].pc = "done"
  /\ hpc' = "end"
  /\ UNCHANGED <<fail, heap, aborted, th>>

\* the trial's values go out of scope and the next trial starts
TrialEnd ==
  /\ aborted = "no" /\ hpc = "end"
  /\ heap' = Release(th[Main], heap)
  /\ th' = [th EXCEPT ![Main] = IdleThread]
  /\ hpc' = "start"
  /\ UNCHANGED <<fail, aborted>>

NextHarness ==
  \/ FailAlloc
  \/ ImpZst(Main)
  \/ AllocLoad(Main)
  \/ SysAllocOk(Main)
  \/ SysAllocNull(Main)
  \/ ImpReturn(Main)
  \/ IoErrorNew(Main)
  \/ FailAllocReturn
  \/ ToStringTrial
  \/ IntoIoTrial
  \/ AssertKind
  \/ TrialEnd

SpecHarness == InitHarness /\ [][NextHarness]_vars

\* ------------------------------------------------------------- properties
\* new(x) has returned to thread p (the result may since have been converted)
NewReturned(p) == th[p].op = "new" /\ th[p].pc = "done"

ArgLayout(p) == Layout_for_value(th[p].arg, word)

\* the addresses a thread refers to: its Box, its io::Error's blocks, the
\* blocks its values own, and the pointer its allocator call returned
Refs(t, h) ==
  {a \in Addrs : a = t.res.ptr \/ a = t.res.custom \/ a = t.ptr}
    \cup Owned(t.x) \cup (IF t.res.tag = "Err" THEN Owned(t.res.val) ELSE {})
    \cup (IF t.res.tag = "Ok" /\ t.res.ptr \in Addrs THEN Owned(h[t.res.ptr].val) ELSE {})

\* C1: when new(x) has returned, the caller holds exactly one of Ok(handle),
\* whose value is x, and Err(ErrorWith(x)) with x unchanged, and no longer x
\* itself; the outcome is Err exactly when x has non-zero size and the
\* allocator call returned null, so a zero-size x yields Ok.
C1_NewOutcome ==
  \A p \in Procs :
    NewReturned(p) =>
      /\ th[p].newTag \in {"Ok", "Err"}
      /\ th[p].x = Moved
      /\ th[p].res.tag = "Ok" =>
           /\ th[p].newTag = "Ok"
           /\ th[p].res.val = NoValue
           /\ BoxValue(th[p].res, heap) = th[p].arg
      /\ th[p].res.tag = "Err" =>
           /\ th[p].newTag = "Err"
           /\ th[p].res.ptr = NoPtr
           /\ th[p].res.val = th[p].arg
      /\ th[p].newTag = "Err" <=> (ArgLayout(p).size # 0 /\ th[p].ptr = NullPtr)
      /\ ArgLayout(p).size = 0 => th[p].newTag = "Ok"

\* C1 witness: one caller holds Err(ErrorWith(x)) with its i32 intact while
\* another holds Ok(handle) to its own value
C1_Witness ==
  \E p, q \in Procs :
    /\ NewReturned(p) /\ th[p].res.tag = "Err"
    /\ th[p].arg.ty = TI32 /\ th[p].res.val = th[p].arg
    /\ NewReturned(q) /\ th[q].res.tag = "Ok"
    /\ th[q].res.ptr \in Addrs /\ heap[th[q].res.ptr].val = th[q].arg

\* C2: an invocation of new(x) calls the raw allocator once when x has
\* non-zero size and never when it has zero size; a successful invocation of
\* non-zero size obtained exactly one block, which is live and referred to by
\* the returned handle alone; a zero-size or failed invocation obtained none.
C2_AllocatorCalls ==
  \A p \in Procs :
    NewReturned(p) =>
      /\ th[p].calls = (IF ArgLayout(p).size = 0 THEN 0 ELSE 1)
      /\ (th[p].newTag = "Ok" /\ ArgLayout(p).size = 0) => th[p].got = {}
      /\ th[p].newTag = "Err" => th[p].got = {}
      /\ (th[p].res.tag = "Ok" /\ ArgLayout(p).size # 0) =>
           /\ th[p].got = {th[p].res.ptr}
           /\ heap[th[p].res.ptr].live
           /\ heap[th[p].res.ptr].layout = ArgLayout(p)
           /\ \A q \in Procs \ {p} : th[p].res.ptr \notin Refs(th[q], heap)

\* C2 witness: a successful new(x) of an i32 that made its one allocator call
\* and owns the one block it obtained
C2_Witness ==
  /\ NewReturned(Main) /\ th[Main].res.tag = "Ok"
  /\ th[Main].arg.ty = TI32
  /\ th[Main].calls = 1
  /\ th[Main].got = {th[Main].res.ptr}

\* C3 as stated: every attempt that was in flight at some moment of the
\* failing window returns the failure path with its value intact.
C3_InFlightInWindowFails ==
  \A p \in Procs :
    (NewReturned(p) /\ th[p].window) =>
      /\ th[p].newTag = "Err"
      /\ th[p].res.tag = "Err" => th[p].res.val = th[p].arg

\* C3 amended: every attempt of non-zero size whose allocator call read the
\* flag while it was set returns the failure path with its value intact; and
\* in either window the value of an attempt is in exactly one place, the
\* handle's block or the returned error, unchanged.
C3_FlagReadFails ==
  \A p \in Procs :
    NewReturned(p) =>
      /\ (ArgLayout(p).size # 0 /\ th[p].readFail) =>
           /\ th[p].newTag = "Err"
           /\ th[p].got = {}
           /\ th[p].res.tag = "Err" => th[p].res.val = th[p].arg
      /\ th[p].x = Moved
      /\ th[p].res.tag = "Ok" =>
           (th[p].res.val = NoValue /\ BoxValue(th[p].res, heap) = th[p].arg)
      /\ th[p].res.tag = "Err" =>
           (th[p].res.ptr = NoPtr /\ th[p].res.val = th[p].arg)

\* C3 witness: two attempts ran concurrently; one read the flag set and holds
\* its value in the error, the other read it clear and holds a handle
C3_Witness ==
  \E p, q \in Procs :
    /\ NewReturned(p) /\ th[p].readFail /\ th[p].res.tag = "Err"
    /\ th[p].res.val = th[p].arg
    /\ NewReturned(q) /\ th[q].window /\ ~th[q].readFail /\ th[q].res.tag = "Ok"
    /\ th[q].res.ptr \in Addrs

\* C4 as stated: the conversion to io::Error never aborts, and ends with an
\* OutOfMemory error that carries the source exactly when the allocation for
\* the source succeeded.
C4_ConversionNeverAborts ==
  /\ aborted # "handle_alloc_error"
  /\ \A p \in Procs :
       (th[p].op = "io" /\ th[p].pc = "done") =>
         /\ th[p].res.tag = "Io"
         /\ th[p].res.ptr \in Addrs <=> th[p].newTag = "Ok"

\* C5: when or_drop(x) has returned, it is Ok exactly when the new(x) inside
\* it was; on Ok the handle holds x and nothing was destroyed; on failure x
\* was destroyed exactly once and the Error returned describes x's type.
C5_OrDrop ==
  \A p \in Procs :
    (th[p].op = "or_drop" /\ th[p].pc = "done") =>
      /\ th[p].res.tag = "Ok" <=> th[p].newTag = "Ok"
      /\ th[p].res.tag = "Ok" =>
           /\ th[p].dropped = 0
           /\ BoxValue(th[p].res, heap) = th[p].arg
           /\ Owned(th[p].arg) \subseteq Live(heap)
      /\ th[p].res.tag # "Ok" =>
           /\ th[p].res.tag = "Error"
           /\ th[p].dropped = 1
           /\ Error_info(th[p].res.val, word).name = type_name(th[p].arg.ty)
           /\ Error_info(th[p].res.val, word).layout = ArgLayout(p)

\* C5 witness: or_drop of a Box<i32> failed, and the Box was destroyed once
C5_Witness ==
  /\ th[Main].op = "or_drop" /\ th[Main].pc = "done"
  /\ th[Main].res.tag = "Error"
  /\ th[Main].arg.ty = TBoxI32
  /\ th[Main].dropped = 1

\* the step in which the main caller applies without_payload to the
\* ErrorWith that new returned
WithoutPayloadStep ==
  /\ th[Main].pc = "done" /\ th[Main].res.tag = "Err"
  /\ th'[Main].pc = "done" /\ th'[Main].res.tag = "Error"

\* C6 as stated: without_payload leaves the allocator call count and the set
\* of live heap blocks as they were.
C6_HeapUntouched ==
  [][WithoutPayloadStep =>
       /\ th'[Main].calls = th[Main].calls
       /\ Live(heap') = Live(heap)]_vars

\* C6 amended: without_payload makes no allocation and always yields an
\* Error: the allocator call count is unchanged, no block becomes live and no
\* live block changes; the blocks that stop being live are exactly those the
\* payload owned, released by the payload's destructor.
C6_NoAllocation ==
  [][WithoutPayloadStep =>
       /\ th'[Main].calls = th[Main].calls
       /\ th'[Main].got = th[Main].got
       /\ th'[Main].res.val = ErrorOf(th[Main].arg.ty)
       /\ Live(heap') = Live(heap) \ Owned(th[Main].res.val)
       /\ \A a \in Live(heap') : heap'[a] = heap[a]]_vars

\* C6 witness: without_payload has run on an ErrorWith<Box<i32>> while the
\* allocator was failing
C6_Witness ==
  /\ NewReturned(Main) /\ th[Main].res.tag = "Error"
  /\ th[Main].arg.ty = TBoxI32
  /\ th[Main].dropped = 1
  /\ fail

\* C7: every call of layout() on the Error of a failed allocation returns
\* the layout that the failed attempt passed to the allocator, whatever
\* happened since (so all calls return the same).
C7_LayoutStable ==
  \A p \in Procs :
    (th[p].pc = "done" /\ th[p].res.tag = "Error" /\ th[p].lastLayout # NoLayout) =>
      /\ th[p].failedLay # NoLayout
      /\ th[p].lastLayout = th[p].failedLay

\* C7 witness: layout() was called on the Error of a failed 4-byte attempt,
\* after the allocator was switched back
C7_Witness ==
  /\ th[Main].pc = "done" /\ th[Main].res.tag = "Error"
  /\ th[Main].lastLayout = Layout(4, 4)
  /\ th[Main].failedLay = Layout(4, 4)
  /\ th[Main].readFail /\ ~fail

\* C9: every Error a caller holds stores the function pointer and nothing
\* else, and so occupies one machine word of the target:
\* size_of(Error) == size_of(usize).
C9_ErrorIsOneWord ==
  \A w \in WordSizes :
    /\ Layout_new(TError, w).size = w
    /\ \A p \in Procs :
         th[p].res.tag = "Error" =>
           /\ DOMAIN th[p].res.val = {"info"}
           /\ size_of_val(th[p].res.val, w) = w
           /\ size_of_val(th[p].res.val, w) = Layout_new(TError, w).size

\* C9 witness: the main caller holds an Error made from an ErrorWith<i32>
C9_Witness ==
  /\ th[Main].res.tag = "Error"
  /\ th[Main].res.val.info = TI32
  /\ th[Main].dropped = 1
  /\ size_of_val(th[Main].res.val, word) = word

\* the claim's reading of a size of n bytes: k is the largest power of 1024
\* not exceeding n (n is below 2^31, so k is at most 3)
LargestPow(n) == CHOOSE k \in 0..3 : Pow1024(k) <= n /\ n \div Pow1024(k) < 1024

ClaimedPrefix == <<"ki", "mi", "gi">>

ClaimedMessage(n, name) ==
  IF n < 1024
  THEN "memory allocation of " \o ToString(n) \o " bytes (for type " \o name \o ") failed"
  ELSE LET P == Pow1024(LargestPow(n))
           size == IF n % P = 0 THEN ToString(n \div P) ELSE Fixed(n, P, 2)
       IN "memory allocation of " \o size \o " " \o ClaimedPrefix[LargestPow(n)]
            \o "bytes (for type " \o name \o ") failed"

C10_FailAllocAlwaysErr ==
  /\ aborted # "unreachable"
  /\ (hpc \in {"fa_display", "fa_io"} /\ th[Main].pc = "done") => th[Main].res.tag = "Err"
  /\ hpc \in {"display", "io"} => ~fail

====
